---- MODULE Spec2Model ----
(***************************************************************************)
(* Model of the registry core of ddai: the Version / FileItem / Registry   *)
(* value types (core/registry/types.rs), the persistence processor and the *)
(* path wrapper (commands/adapters), and the registry Manager              *)
(* (core/registry/manager.rs).                                             *)
(*                                                                         *)
(* Strings that the code inspects character by character (versions) are    *)
(* sequences of one-character strings; names and labels, which the code    *)
(* only compares and tests for emptiness, are TLA+ strings.  A path is the *)
(* sequence of its components below the root "/".                          *)
(***************************************************************************)
EXTENDS Integers, Sequences, FiniteSets, TLC

\* Option<T>: None, or Some(x)
None == <<>>

Some(x) == <<x>>

----------------------------------------------------------------------------
(* Bounds of the model *)

\* longest files list of a registry file that is on disk before the first call
MaxInitFiles == 2

----------------------------------------------------------------------------
(* Constants of the program *)

REGISTRY_VERSION_GENESIS == <<"0", ".", "1", ".", "0">>

REGISTRY_FILE_NAME == "registry.json"

\* the bound of a version part, FileVersion::validate
MaxPart == 255

\* u32::MAX = 4294967295, as decimal digits (the bound of part.parse::<u32>())
U32MaxDigits == <<4, 2, 9, 4, 9, 6, 7, 2, 9, 5>>

----------------------------------------------------------------------------
(* Results *)

OkResult == [ok |-> TRUE, cat |-> "", kind |-> "", msg |-> ""]

\* RegistryError::FsError(std::io::Error::new(kind, msg))
FsError(kind, msg) == [ok |-> FALSE, cat |-> "FsError", kind |-> kind, msg |-> msg]

\* CoreError::ValidationError(msg); the managers wrap it unchanged in their own
\* CoreError variant (map_err(|e| RegistryError::CoreError(e)))
ValidationError(msg) ==
    [ok |-> FALSE, cat |-> "CoreError", kind |-> "ValidationError", msg |-> msg]

----------------------------------------------------------------------------
(* FileVersion *)

Digits == {"0", "1", "2", "3", "4", "5", "6", "7", "8", "9"}

DigitVal(c) ==
    CASE c = "0" -> 0 [] c = "1" -> 1 [] c = "2" -> 2 [] c = "3" -> 3
      [] c = "4" -> 4 [] c = "5" -> 5 [] c = "6" -> 6 [] c = "7" -> 7
      [] c = "8" -> 8 [] c = "9" -> 9

\* str::split('.'): the parts between the dots; the empty string has one
\* (empty) part
RECURSIVE SplitDots(_)
SplitDots(s) ==
    IF \A i \in 1..Len(s) : s[i] # "."
    THEN <<s>>
    ELSE LET i == CHOOSE k \in 1..Len(s) :
                      s[k] = "." /\ \A j \in 1..(k - 1) : s[j] # "."
         IN  <<SubSeq(s, 1, i - 1)>> \o SplitDots(SubSeq(s, i + 1, Len(s)))

RECURSIVE StripZeros(_)
StripZeros(p) ==
    IF Len(p) > 0 /\ p[1] = "0" THEN StripZeros(Tail(p)) ELSE p

\* lexicographic d <= e for digit sequences of the same length
RECURSIVE DigitsLeq(_, _)
DigitsLeq(d, e) ==
    IF Len(d) = 0 THEN TRUE
    ELSE IF d[1] < e[1] THEN TRUE
    ELSE IF d[1] > e[1] THEN FALSE
    ELSE DigitsLeq(Tail(d), Tail(e))

\* part.parse::<u32>() is Ok: a non-empty run of digits whose value is at
\* most u32::MAX (a leading '+' is accepted by parse but is never reached,
\* the character check of validate comes first)
ParsesU32(p) ==
    /\ Len(p) > 0
    /\ \A i \in 1..Len(p) : p[i] \in Digits
    /\ LET z == StripZeros(p)
       IN  \/ Len(z) < Len(U32MaxDigits)
           \/ /\ Len(z) = Len(U32MaxDigits)
              /\ DigitsLeq([i \in 1..Len(z) |-> DigitVal(z[i])], U32MaxDigits)

\* the value of part.parse::<u32>().unwrap(), saturated at MaxPart + 1: the
\* code only compares it with 0 and with 255
RECURSIVE PartValueFrom(_, _)
PartValueFrom(acc, p) ==
    IF Len(p) = 0 THEN acc
    ELSE LET n == acc * 10 + DigitVal(p[1])
         IN  PartValueFrom(IF n > MaxPart THEN MaxPart + 1 ELSE n, Tail(p))

PartValue(p) == PartValueFrom(0, p)

\* validate without the upper limit of a part
FileVersion_validate_NoRange(v) ==
    IF Len(v) = 0
    THEN ValidationError("File version cannot be empty")
    ELSE IF ~(\A i \in 1..Len(v) : v[i] \in Digits \/ v[i] = ".")
    THEN ValidationError("File version can only contain digit characters & dots")
    ELSE LET parts == SplitDots(v)
         IN  IF Len(parts) = 0 \/ (\E i \in 1..Len(parts) : Len(parts[i]) = 0)
             THEN ValidationError("File version must contain at least one non-empty part")
             ELSE IF Len(parts) # 3
             THEN ValidationError("File version can have at most three parts")
             ELSE IF \E i \in 1..3 : ~ParsesU32(parts[i])
             THEN ValidationError("Each part of the file version must be a valid unsigned integer")
             ELSE IF \A i \in 1..3 : PartValue(parts[i]) = 0
             THEN ValidationError("File version cannot be zero")
             ELSE OkResult

\* impl Validator for FileVersion
FileVersion_validate(v) ==
    IF Len(v) = 0
    THEN ValidationError("File version cannot be empty")
    ELSE IF ~(\A i \in 1..Len(v) : v[i] \in Digits \/ v[i] = ".")
    THEN ValidationError("File version can only contain digit characters & dots")
    ELSE LET parts == SplitDots(v)
         IN  IF Len(parts) = 0 \/ (\E i \in 1..Len(parts) : Len(parts[i]) = 0)
             THEN ValidationError("File version must contain at least one non-empty part")
             ELSE IF Len(parts) # 3
             THEN ValidationError("File version can have at most three parts")
             ELSE IF \E i \in 1..3 : ~ParsesU32(parts[i])
             THEN ValidationError("Each part of the file version must be a valid unsigned integer")
             ELSE IF \A i \in 1..3 : PartValue(parts[i]) = 0
             THEN ValidationError("File version cannot be zero")
             ELSE IF \E i \in 1..3 : PartValue(parts[i]) > MaxPart
             THEN ValidationError("Each part of the file version must be between 0 and 255")
             ELSE OkResult

\* FileVersion::new
FileVersion_new == REGISTRY_VERSION_GENESIS

----------------------------------------------------------------------------
(* FileItem *)

\* FileItem::new without the genesis version
FileItem_new_NoGenesis(name) == [name |-> name, versions |-> <<>>]

\* FileItem::new
FileItem_new(name) == [name |-> name, versions |-> <<FileVersion_new>>]

\* Vec::contains
Contains(seq, x) == \E i \in 1..Len(seq) : seq[i] = x

\* FileItem::update without the membership test
FileItem_update_AlwaysPush(fi, version) ==
    [fi EXCEPT !.versions = Append(@, version)]

\* FileItem::update that puts the new version first
FileItem_update_PushFront(fi, version) ==
    IF ~Contains(fi.versions, version)
    THEN [fi EXCEPT !.versions = <<version>> \o @]
    ELSE fi

\* FileItem::update that starts the list over with the version
FileItem_update_Restart(fi, version) ==
    IF ~Contains(fi.versions, version)
    THEN [fi EXCEPT !.versions = <<version>>]
    ELSE fi

\* FileItem::update with the membership test inverted
FileItem_update_Inverted(fi, version) ==
    IF Contains(fi.versions, version)
    THEN [fi EXCEPT !.versions = Append(@, version)]
    ELSE fi

\* FileItem::update
FileItem_update(fi, version) ==
    IF ~Contains(fi.versions, version)
    THEN [fi EXCEPT !.versions = Append(@, version)]
    ELSE fi

\* get_last_version that returns the first version
FileItem_get_last_version_First(fi) ==
    IF Len(fi.versions) = 0 THEN None ELSE Some(fi.versions[1])

\* FileItem::get_last_version
FileItem_get_last_version(fi) ==
    IF Len(fi.versions) = 0 THEN None ELSE Some(fi.versions[Len(fi.versions)])

\* the first error of `for version in &self.versions { version.validate()?; }`
RECURSIVE FirstVersionError(_)
FirstVersionError(versions) ==
    IF Len(versions) = 0 THEN OkResult
    ELSE IF ~FileVersion_validate(Head(versions)).ok
    THEN FileVersion_validate(Head(versions))
    ELSE FirstVersionError(Tail(versions))

\* FileItem validation without the test of the name
FileItem_validate_NoNameCheck(fi) ==
    IF Len(fi.versions) = 0
    THEN ValidationError("File must have at least one version")
    ELSE FirstVersionError(fi.versions)

\* FileItem validation that looks at the last version only
FileItem_validate_LastOnly(fi) ==
    IF fi.name = ""
    THEN ValidationError("File name cannot be empty")
    ELSE IF Len(fi.versions) = 0
    THEN ValidationError("File must have at least one version")
    ELSE FileVersion_validate(fi.versions[Len(fi.versions)])

\* impl Validator for FileItem
FileItem_validate(fi) ==
    IF fi.name = ""
    THEN ValidationError("File name cannot be empty")
    ELSE IF Len(fi.versions) = 0
    THEN ValidationError("File must have at least one version")
    ELSE FirstVersionError(fi.versions)

----------------------------------------------------------------------------
(* Registry *)

\* Registry::new
Registry_new(directory) == [directory |-> directory, files |-> <<>>]

\* remove_file with the test of retain inverted
Registry_remove_file_Inverted(registry, file_name) ==
    LET Keep(file) == file.name = file_name
    IN  [registry EXCEPT !.files = SelectSeq(@, Keep)]

\* remove_file that retains no entry
Registry_remove_file_All(registry, file_name) ==
    LET Keep(file) == FALSE
    IN  [registry EXCEPT !.files = SelectSeq(@, Keep)]

\* Registry::remove_file
Registry_remove_file(registry, file_name) ==
    LET Keep(file) == file.name # file_name
    IN  [registry EXCEPT !.files = SelectSeq(@, Keep)]

\* Registry::get_file: the first entry of that name
Registry_get_file(registry, file_name) ==
    IF \E i \in 1..Len(registry.files) : registry.files[i].name = file_name
    THEN Some(registry.files[CHOOSE i \in 1..Len(registry.files) :
            /\ registry.files[i].name = file_name
            /\ \A j \in 1..(i - 1) : registry.files[j].name # file_name])
    ELSE None

\* add_file that merges the versions of the old entry into the new one
Registry_add_file_Merge(registry, file) ==
    IF Registry_get_file(registry, file.name) # None
    THEN [Registry_remove_file(registry, file.name) EXCEPT !.files =
            Append(@, [file EXCEPT !.versions =
                         Registry_get_file(registry, file.name)[1].versions \o @])]
    ELSE [registry EXCEPT !.files = Append(@, file)]

\* add_file that pushes without removing the entry of the same name
Registry_add_file_NoRemove(registry, file) ==
    [registry EXCEPT !.files = Append(@, file)]

\* add_file that keeps no other entry
Registry_add_file_Only(registry, file) ==
    [registry EXCEPT !.files = <<file>>]

\* Registry::add_file
Registry_add_file(registry, file) ==
    IF Registry_get_file(registry, file.name) # None
    THEN [Registry_remove_file(registry, file.name) EXCEPT !.files = Append(@, file)]
    ELSE [registry EXCEPT !.files = Append(@, file)]

----------------------------------------------------------------------------
(* Paths and the file system *)

\* PathBuf::join of one normal component
Join(path, component) == Append(path, component)

\* Path::file_name: the last component, unless the path is the root or ends
\* in ".."
Path_file_name(path) ==
    IF Len(path) = 0 \/ path[Len(path)] = ".." THEN None
    ELSE Some(path[Len(path)])

\* Path::parent: None for the root
Path_parent(path) ==
    IF Len(path) = 0 THEN None ELSE Some(SubSeq(path, 1, Len(path) - 1))

\* dir_name that falls back to the empty label
PathBufAdapter_dir_name_Default(pathbuf) ==
    IF Path_file_name(pathbuf) # None THEN Path_file_name(pathbuf)
    ELSE IF Path_parent(pathbuf) # None /\ Path_file_name(Path_parent(pathbuf)[1]) # None
    THEN Path_file_name(Path_parent(pathbuf)[1])
    ELSE Some("")

\* PathBufAdapter::dir_name
PathBufAdapter_dir_name(pathbuf) ==
    IF Path_file_name(pathbuf) # None THEN Path_file_name(pathbuf)
    ELSE IF Path_parent(pathbuf) # None THEN Path_file_name(Path_parent(pathbuf)[1])
    ELSE None

\* PathBufAdapter::exists, Path::exists of a directory
PathBufAdapter_exists(fs, pathbuf) == pathbuf \in fs.dirs

\* Path::exists of a file
File_exists(fs, path) == path \in DOMAIN fs.files

\* the file system after `path` is written with `doc`
WriteFile(fs, path, doc) ==
    [fs EXCEPT !.files = [p \in DOMAIN fs.files \cup {path} |->
                             IF p = path THEN doc ELSE fs.files[p]]]

----------------------------------------------------------------------------
(* JSON documents *)

\* A document is the JSON value that the text of a file denotes: a string,
\* an array of values, or an object, which is a list of members in the order
\* of the text (a key may occur more than once).
JString(s) == [j |-> "string", v |-> s]

JArray(elements) == [j |-> "array", v |-> elements]

JObject(members) == [j |-> "object", v |-> members]

Member(key, val) == [key |-> key, val |-> val]

\* the document of a file whose text ends before a JSON value is complete
\* (empty or cut short)
CorruptDoc == [j |-> "truncated", v |-> <<>>]

\* derive(Serialize) of the newtype structs FileName, FileVersion and
\* Directory: the string inside
String_to_json(s) == JString(s)

\* derive(Serialize) of FileItem: an object with the fields in declaration
\* order
FileItem_to_json(fi) ==
    JObject(<< Member("name", String_to_json(fi.name)),
               Member("versions",
                      JArray([i \in 1..Len(fi.versions) |->
                                String_to_json(fi.versions[i])])) >>)

\* serialization that leaves the version lists out
Registry_to_json_NoVersions(registry) ==
    JObject(<< Member("directory", String_to_json(registry.directory)),
               Member("files",
                      JArray([i \in 1..Len(registry.files) |->
                                JObject(<< Member("name",
                                    String_to_json(registry.files[i].name)),
                                    Member("versions", JArray(<<>>)) >>)])) >>)

\* serde_json serialization of a Registry (derive(Serialize))
Registry_to_json(registry) ==
    JObject(<< Member("directory", String_to_json(registry.directory)),
               Member("files",
                      JArray([i \in 1..Len(registry.files) |->
                                FileItem_to_json(registry.files[i])])) >>)

\* the values of the members of that key
MemberValues(members, key) ==
    LET Keyed(m) == m.key = key
        found == SelectSeq(members, Keyed)
    IN  [i \in 1..Len(found) |-> found[i].val]

\* derive(Deserialize) of a struct with the fields `keys`: the value of each
\* field.  From an object every field must occur, and occur once; members of
\* any other key are skipped.  From an array the elements are the fields in
\* declaration order, no fewer and no more.
Struct_from_json(doc, keys) ==
    IF doc.j = "object"
    THEN IF \A k \in 1..Len(keys) : Len(MemberValues(doc.v, keys[k])) = 1
         THEN Some([k \in 1..Len(keys) |-> MemberValues(doc.v, keys[k])[1]])
         ELSE None
    ELSE IF doc.j = "array" /\ Len(doc.v) = Len(keys)
    THEN Some(doc.v)
    ELSE None

\* derive(Deserialize) of the newtype structs over String
String_from_json(doc) == IF doc.j = "string" THEN Some(doc.v) ELSE None

\* Vec<FileVersion> from an array of strings
Versions_from_json(doc) ==
    IF doc.j = "array" /\ \A i \in 1..Len(doc.v) : doc.v[i].j = "string"
    THEN Some([i \in 1..Len(doc.v) |-> String_from_json(doc.v[i])[1]])
    ELSE None

\* derive(Deserialize) of FileItem
FileItem_from_json(doc) ==
    LET fields == Struct_from_json(doc, <<"name", "versions">>)
        name == String_from_json(fields[1][1])
        versions == Versions_from_json(fields[1][2])
    IN  IF fields = None
        THEN None
        ELSE IF name = None \/ versions = None
        THEN None
        ELSE Some([name |-> name[1], versions |-> versions[1]])

\* Vec<FileItem> from an array of entries
Files_from_json(doc) ==
    LET items == [i \in 1..Len(doc.v) |-> FileItem_from_json(doc.v[i])]
    IN  IF doc.j = "array" /\ \A i \in 1..Len(doc.v) : items[i] # None
        THEN Some([i \in 1..Len(doc.v) |-> items[i][1]])
        ELSE None

\* serde_json deserialization of a Registry (derive(Deserialize))
Registry_from_json(doc) ==
    LET fields == Struct_from_json(doc, <<"directory", "files">>)
        directory == String_from_json(fields[1][1])
        files == Files_from_json(fields[1][2])
    IN  IF fields = None
        THEN None
        ELSE IF directory = None \/ files = None
        THEN None
        ELSE Some([directory |-> directory[1], files |-> files[1]])

----------------------------------------------------------------------------
(* Persistence processor *)

\* what the file system does to one build: all of it works, File::create
\* fails, a write inside serde_json::to_writer fails, or the flush of the
\* BufWriter fails when it is dropped (an error that drop ignores)
BuildIo == {"ok", "create_err", "write_err", "flush_err"}

\* what the file system does to one parse: File::open works or fails
ParseIo == {"ok", "open_err"}

\* ProcessorAdapter::build: the result and the file system it leaves.
\* File::create fails on a directory and in a directory that does not exist.
ProcessorAdapter_build(fs, file_path, registry, io) ==
    IF \/ io = "create_err"
       \/ file_path \in fs.dirs
       \/ Path_parent(file_path) = None
       \/ Path_parent(file_path)[1] \notin fs.dirs
    THEN [result |-> FsError("Other", "create"), fs |-> fs]
    ELSE IF io = "write_err"
    THEN [result |-> FsError("Other", "write"),
          fs |-> WriteFile(fs, file_path, CorruptDoc)]
    ELSE IF io = "flush_err"
    THEN [result |-> OkResult, fs |-> WriteFile(fs, file_path, CorruptDoc)]
    ELSE [result |-> OkResult,
          fs |-> WriteFile(fs, file_path, Registry_to_json(registry))]

\* ProcessorAdapter::parse: the result and the registry read
ProcessorAdapter_parse(fs, file_path, io) ==
    LET registry == Registry_from_json(fs.files[file_path])
    IN  IF io = "open_err" \/ ~File_exists(fs, file_path)
        THEN [result |-> FsError("Other", "open"), registry |-> None]
        ELSE IF fs.files[file_path].j = "truncated"
        THEN [result |-> FsError("UnexpectedEof", "json"), registry |-> None]
        ELSE IF registry = None
        THEN [result |-> FsError("InvalidData", "json"), registry |-> None]
        ELSE [result |-> OkResult, registry |-> registry]

----------------------------------------------------------------------------
(* Registry manager *)

\* one call of the processor, as the manager made it: the method, its
\* arguments, what the file system did to it and what it returned
BuildCall(file_path, registry, io, result) ==
    [method |-> "build", path |-> file_path, registry |-> Some(registry),
     io |-> io, result |-> result]

ParseCall(file_path, io, out) ==
    [method |-> "parse", path |-> file_path, registry |-> out.registry,
     io |-> io, result |-> out.result]

\* the registry file path with another file name
Manager_build_registry_file_path_WrongName(pathbuf) == Join(pathbuf, "registry")

\* Manager::_build_registry_file_path
Manager_build_registry_file_path(pathbuf) == Join(pathbuf, REGISTRY_FILE_NAME)

\* an operation that returns before it reaches the processor
Return(result, fs) == [result |-> result, ret |-> None, calls |-> <<>>, fs |-> fs]

\* self.processor.build(registry_file_path, registry) as the last expression
\* of an operation that made the calls `before`
ReturnBuild(before, fs, file_path, registry, bio) ==
    LET out == ProcessorAdapter_build(fs, file_path, registry, bio)
    IN  [result |-> out.result, ret |-> None,
         calls |-> Append(before, BuildCall(file_path, registry, bio, out.result)),
         fs |-> out.fs]

\* build_registry without the test for an existing registry file
Manager_build_registry_Overwrite(pathbuf, fs, file, bio) ==
    LET registry_file_path == Manager_build_registry_file_path(pathbuf)
        dir_name == PathBufAdapter_dir_name(pathbuf)
        file_item == FileItem_new(file)
    IN  IF ~PathBufAdapter_exists(fs, pathbuf)
        THEN Return(FsError("NotFound", "Output directory is missing or invalid"), fs)
        ELSE IF dir_name = None
        THEN Return(FsError("NotFound", "Output directory is missing or invalid"), fs)
        ELSE IF ~FileItem_validate(file_item).ok
        THEN Return(FileItem_validate(file_item), fs)
        ELSE ReturnBuild(<<>>, fs, registry_file_path,
                         Registry_add_file(Registry_new(dir_name[1]), file_item), bio)

\* Manager::build_registry
Manager_build_registry(pathbuf, fs, file, bio) ==
    LET registry_file_path == Manager_build_registry_file_path(pathbuf)
        dir_name == PathBufAdapter_dir_name(pathbuf)
        file_item == FileItem_new(file)
    IN  IF ~PathBufAdapter_exists(fs, pathbuf)
        THEN Return(FsError("NotFound", "Output directory is missing or invalid"), fs)
        ELSE IF File_exists(fs, registry_file_path)
        THEN Return(FsError("AlreadyExists", "Registry file already exists"), fs)
        ELSE IF dir_name = None
        THEN Return(FsError("NotFound", "Output directory is missing or invalid"), fs)
        ELSE IF ~FileItem_validate(file_item).ok
        THEN Return(FileItem_validate(file_item), fs)
        ELSE ReturnBuild(<<>>, fs, registry_file_path,
                         Registry_add_file(Registry_new(dir_name[1]), file_item), bio)

\* the new entry of update_registry also records the version
Manager_update_registry_loaded_RecordsVersion(pathbuf, fs, file, version, pio, bio) ==
    LET registry_file_path == Manager_build_registry_file_path(pathbuf)
        parsed == ProcessorAdapter_parse(fs, registry_file_path, pio)
        parse_call == ParseCall(registry_file_path, pio, parsed)
        registry == parsed.registry[1]
        file_item == Registry_get_file(registry, file)
    IN  IF ~parsed.result.ok
        THEN [result |-> parsed.result, ret |-> None, calls |-> <<parse_call>>, fs |-> fs]
        ELSE IF file_item # None
        THEN ReturnBuild(<<parse_call>>, fs, registry_file_path,
                 Registry_add_file(registry, FileItem_update(file_item[1], version)), bio)
        ELSE ReturnBuild(<<parse_call>>, fs, registry_file_path,
                 Registry_add_file(registry, FileItem_update(FileItem_new(file), version)), bio)

\* a registry that cannot be parsed is replaced by an empty one
Manager_update_registry_loaded_SwallowsParseError(pathbuf, fs, file, version, pio, bio) ==
    LET registry_file_path == Manager_build_registry_file_path(pathbuf)
        parsed == ProcessorAdapter_parse(fs, registry_file_path, pio)
        parse_call == ParseCall(registry_file_path, pio, parsed)
        registry == IF parsed.result.ok THEN parsed.registry[1] ELSE Registry_new("")
        file_item == Registry_get_file(registry, file)
    IN  IF file_item # None
        THEN ReturnBuild(<<parse_call>>, fs, registry_file_path,
                 Registry_add_file(registry, FileItem_update(file_item[1], version)), bio)
        ELSE ReturnBuild(<<parse_call>>, fs, registry_file_path,
                 Registry_add_file(registry, FileItem_new(file)), bio)

\* the modification that leaves the loaded registry as it was
Manager_update_registry_modified_Nothing(registry, file, version) == registry

\* Manager::update_registry between parse and build: what the loaded registry
\* is changed to before it is written
Manager_update_registry_modified(registry, file, version) ==
    LET file_item == Registry_get_file(registry, file)
    IN  IF file_item # None
        THEN Registry_add_file(registry, FileItem_update(file_item[1], version))
        ELSE Registry_add_file(registry, FileItem_new(file))

\* Manager::update_registry from `self.processor.parse` on: the registry file
\* exists and the version is valid
Manager_update_registry_loaded(pathbuf, fs, file, version, pio, bio) ==
    LET registry_file_path == Manager_build_registry_file_path(pathbuf)
        parsed == ProcessorAdapter_parse(fs, registry_file_path, pio)
        parse_call == ParseCall(registry_file_path, pio, parsed)
    IN  IF ~parsed.result.ok
        THEN [result |-> parsed.result, ret |-> None, calls |-> <<parse_call>>, fs |-> fs]
        ELSE ReturnBuild(<<parse_call>>, fs, registry_file_path,
                 Manager_update_registry_modified(parsed.registry[1], file, version), bio)

\* update_registry without the validation of the version
Manager_update_registry_NoValidation(pathbuf, fs, file, version, pio, bio) ==
    IF ~File_exists(fs, Manager_build_registry_file_path(pathbuf))
    THEN Manager_build_registry(pathbuf, fs, file, bio)
    ELSE Manager_update_registry_loaded(pathbuf, fs, file, version, pio, bio)

\* update_registry that validates the version before it looks for the file
Manager_update_registry_ValidateFirst(pathbuf, fs, file, version, pio, bio) ==
    IF ~FileVersion_validate(version).ok
    THEN Return(FileVersion_validate(version), fs)
    ELSE IF ~File_exists(fs, Manager_build_registry_file_path(pathbuf))
    THEN Manager_build_registry(pathbuf, fs, file, bio)
    ELSE Manager_update_registry_loaded(pathbuf, fs, file, version, pio, bio)

\* update_registry that loads the registry before it validates the version
Manager_update_registry_ParseFirst(pathbuf, fs, file, version, pio, bio) ==
    LET registry_file_path == Manager_build_registry_file_path(pathbuf)
        parsed == ProcessorAdapter_parse(fs, registry_file_path, pio)
        parse_call == ParseCall(registry_file_path, pio, parsed)
    IN  IF ~File_exists(fs, registry_file_path)
        THEN Manager_build_registry(pathbuf, fs, file, bio)
        ELSE IF ~parsed.result.ok
        THEN [result |-> parsed.result, ret |-> None, calls |-> <<parse_call>>, fs |-> fs]
        ELSE IF ~FileVersion_validate(version).ok
        THEN [result |-> FileVersion_validate(version), ret |-> None,
              calls |-> <<parse_call>>, fs |-> fs]
        ELSE Manager_update_registry_loaded(pathbuf, fs, file, version, pio, bio)

\* Manager::update_registry
Manager_update_registry(pathbuf, fs, file, version, pio, bio) ==
    IF ~File_exists(fs, Manager_build_registry_file_path(pathbuf))
    THEN Manager_build_registry(pathbuf, fs, file, bio)
    ELSE IF ~FileVersion_validate(version).ok
    THEN Return(FileVersion_validate(version), fs)
    ELSE Manager_update_registry_loaded(pathbuf, fs, file, version, pio, bio)

\* get_file that validates the entry it found
Manager_get_file_Validates(pathbuf, fs, file, pio) ==
    LET registry_file_path == Manager_build_registry_file_path(pathbuf)
        parsed == ProcessorAdapter_parse(fs, registry_file_path, pio)
        parse_call == ParseCall(registry_file_path, pio, parsed)
        found == Registry_get_file(parsed.registry[1], file)
    IN  IF ~parsed.result.ok
        THEN [result |-> parsed.result, ret |-> None, calls |-> <<parse_call>>, fs |-> fs]
        ELSE IF found # None /\ ~FileItem_validate(found[1]).ok
        THEN [result |-> FileItem_validate(found[1]), ret |-> None,
              calls |-> <<parse_call>>, fs |-> fs]
        ELSE [result |-> OkResult, ret |-> found, calls |-> <<parse_call>>, fs |-> fs]

\* Manager::get_file
Manager_get_file(pathbuf, fs, file, pio) ==
    LET registry_file_path == Manager_build_registry_file_path(pathbuf)
        parsed == ProcessorAdapter_parse(fs, registry_file_path, pio)
        parse_call == ParseCall(registry_file_path, pio, parsed)
    IN  IF ~parsed.result.ok
        THEN [result |-> parsed.result, ret |-> None, calls |-> <<parse_call>>, fs |-> fs]
        ELSE [result |-> OkResult, ret |-> Registry_get_file(parsed.registry[1], file),
              calls |-> <<parse_call>>, fs |-> fs]

----------------------------------------------------------------------------
(* Business definitions *)

\* impl Validator for Definition
Definition_validate(definition) ==
    IF definition = ""
    THEN ValidationError("Definition cannot be empty")
    ELSE OkResult

\* BusinessError::InvalidDefinition(e.to_string())
InvalidDefinition(e) ==
    [ok |-> FALSE, cat |-> "InvalidDefinition", kind |-> e.kind, msg |-> e.msg]

\* BusinessError::FsError
BusinessFsError(msg) ==
    [ok |-> FALSE, cat |-> "BusinessFsError", kind |-> "Other", msg |-> msg]

\* BusinessError::RegistryError(err)
BusinessRegistryError(err) ==
    [ok |-> FALSE, cat |-> "RegistryError", kind |-> err.cat, msg |-> err.msg]

\* what the file system does to one define of the processor: all of it
\* works, create_dir_all fails, or File::create fails
DefineIo == {"ok", "mkdir_err", "create_err"}

\* the file of no content that File::create leaves
EmptyFile == CorruptDoc

\* format!("{}.md", version): the name of the file of a version
ArtifactName(version) == version \o <<".", "m", "d">>

\* pathbuf.to_path_buf().join(definition.as_str()): joining the empty string
\* leaves the components as they are
DefinitionDir(pathbuf, definition) ==
    IF definition = "" THEN pathbuf ELSE Join(pathbuf, definition)

\* the path and the paths above it
Ancestors(path) == {SubSeq(path, 1, k) : k \in 0..Len(path)}

\* business ProcessorAdapter::define: the result and the file system it
\* leaves.  create_dir_all makes the directory and every missing directory
\* above it and fails when one of them is a file; File::create fails on a
\* directory and below a file.
BusinessProcessorAdapter_define(pathbuf, fs, definition, version, dio) ==
    LET dir_path == DefinitionDir(pathbuf, definition)
        file_path == Join(dir_path, ArtifactName(version))
        dir_exists == dir_path \in fs.dirs \/ File_exists(fs, dir_path)
        made == IF dir_exists THEN fs
                ELSE [fs EXCEPT !.dirs = @ \cup Ancestors(dir_path)]
    IN  IF /\ ~dir_exists
           /\ \/ dio = "mkdir_err"
              \/ \E p \in Ancestors(dir_path) : File_exists(fs, p)
        THEN [result |-> BusinessFsError("create_dir_all"), fs |-> fs]
        ELSE IF \/ dio = "create_err"
                \/ file_path \in made.dirs
                \/ dir_path \notin made.dirs
        THEN [result |-> BusinessFsError("create"), fs |-> made]
        ELSE [result |-> OkResult, fs |-> WriteFile(made, file_path, EmptyFile)]

\* the calls of the business manager to its collaborators, as they are logged
DefineCall(definition, version, dio, result) ==
    [method |-> "define", path |-> <<definition>>, registry |-> Some(version),
     io |-> dio, result |-> result]

UpdateRegistryCall(file, version, result) ==
    [method |-> "update_registry", path |-> <<file>>, registry |-> Some(version),
     io |-> "ok", result |-> result]

\* define that updates the registry whether or not the processor succeeded
BusinessManager_define_IgnoresDefineError(pathbuf, fs, definition, version, dio, pio, bio) ==
    LET file_version == IF version # None THEN version[1] ELSE FileVersion_new
        defined == BusinessProcessorAdapter_define(pathbuf, fs, definition,
                                                   file_version, dio)
        define_call == DefineCall(definition, file_version, dio, defined.result)
        updated == Manager_update_registry(pathbuf, defined.fs, definition,
                                           file_version, pio, bio)
        update_call == UpdateRegistryCall(definition, file_version, updated.result)
    IN  IF ~Definition_validate(definition).ok
        THEN Return(InvalidDefinition(Definition_validate(definition)), fs)
        ELSE [result |-> IF updated.result.ok THEN OkResult
                         ELSE BusinessRegistryError(updated.result),
              ret |-> None,
              calls |-> <<define_call, update_call>> \o updated.calls,
              fs |-> updated.fs]

\* business Manager::define
BusinessManager_define(pathbuf, fs, definition, version, dio, pio, bio) ==
    LET file_version == IF version # None THEN version[1] ELSE FileVersion_new
        defined == BusinessProcessorAdapter_define(pathbuf, fs, definition,
                                                   file_version, dio)
        define_call == DefineCall(definition, file_version, dio, defined.result)
        updated == Manager_update_registry(pathbuf, defined.fs, definition,
                                           file_version, pio, bio)
        update_call == UpdateRegistryCall(definition, file_version, updated.result)
    IN  IF ~Definition_validate(definition).ok
        THEN Return(InvalidDefinition(Definition_validate(definition)), fs)
        ELSE IF ~defined.result.ok
        THEN [result |-> defined.result, ret |-> None, calls |-> <<define_call>>,
              fs |-> defined.fs]
        ELSE [result |-> IF updated.result.ok THEN OkResult
                         ELSE BusinessRegistryError(updated.result),
              ret |-> None,
              calls |-> <<define_call, update_call>> \o updated.calls,
              fs |-> updated.fs]

----------------------------------------------------------------------------
(* Inputs *)

V_0_1_0 == REGISTRY_VERSION_GENESIS
V_1_0_0 == <<"1", ".", "0", ".", "0">>

V_bad_version == <<"b", "a", "d", ".", "v", "e", "r", "s", "i", "o", "n">>

ValidVersions == {V_0_1_0, V_1_0_0}

\* one version for each rule of FileVersion::validate
InvalidVersions ==
    { <<>>,
      <<"b", "a", "d", ".", "v", "e", "r", "s", "i", "o", "n">>,
      <<"1", ".", ".", "0">>,
      <<"1", ".", "0">>,
      <<"4", "2", "9", "4", "9", "6", "7", "2", "9", "6", ".", "0", ".", "0">>,
      <<"0", ".", "0", ".", "0">>,
      <<"2", "5", "6", ".", "0", ".", "0">> }

Versions == ValidVersions \cup InvalidVersions

FileNames == {"", "readme", "test_file"}

\* the scope directories a manager is constructed for: "/tmp/output", "/"
ScopePaths == { <<"tmp", "output">>, <<>> }

\* the directories that exist whatever the scope: "/" and "/tmp"
BaseDirs == { <<>>, <<"tmp">> }

\* registry documents that may be on disk before the first call: written
\* by an earlier run or by hand, so a version list may be empty, may lack
\* the genesis version and may repeat a version, a name may occur twice and
\* the label need not be the name of the scope directory
InitVersionLists ==
    { <<>>, <<V_0_1_0>>, <<V_0_1_0, V_1_0_0>>, <<V_1_0_0, V_1_0_0>> }

InitItems ==
    {[name |-> n, versions |-> vs] : n \in {"readme", "test_file"}, vs \in InitVersionLists}

InitDocs ==
    {CorruptDoc} \cup
    {Registry_to_json([directory |-> "legacy", files |-> fl]) :
        fl \in UNION {[1..n -> InitItems] : n \in 0..MaxInitFiles}}

----------------------------------------------------------------------------
(* State *)

VARIABLES
    pathbuf,    \* the scope directory of the manager's path wrapper
    fs,         \* the file system: the directories and the files that exist
    op,         \* the last operation called and its arguments
    result,     \* what it returned: Ok(..) or the error
    ret,        \* the value inside Ok(..), where there is one
    calls,      \* the processor calls it made, in order
    pre,        \* the file system when it was called
    registry,   \* a Registry value held by a caller of the type's own methods
    file_item,  \* a FileItem value held by a caller of the type's own methods
    procs       \* the update_registry invocations that run step by step

vars == <<pathbuf, fs, op, result, ret, calls, pre, registry, file_item, procs>>

NoOp == [name |-> "none", file |-> "", version |-> None]

\* the invocations that may run concurrently
Procs == {1, 2}

\* an invocation that has not been started
IdleProc == [pc |-> "idle", file |-> "", version |-> None, loaded |-> None,
             result |-> OkResult, read |-> 0, wrote |-> 0]

\* no value of the registry types is held and no invocation is in progress
NoObjects ==
    /\ registry = None
    /\ file_item = None
    /\ procs = [i \in Procs |-> IdleProc]

Init ==
    /\ pathbuf \in ScopePaths
    /\ \E dirs \in {BaseDirs, BaseDirs \cup {pathbuf}} :
          \/ fs = [dirs |-> dirs, files |-> [p \in {} |-> CorruptDoc]]
          \/ /\ pathbuf \in dirs
             /\ \E doc \in InitDocs :
                   fs = [dirs |-> dirs,
                         files |-> [p \in {Join(pathbuf, REGISTRY_FILE_NAME)} |-> doc]]
    /\ op = NoOp
    /\ result = OkResult
    /\ ret = None
    /\ calls = <<>>
    /\ pre = fs
    /\ NoObjects

\* the effect of an operation that returned `out`
Returned(call, out) ==
    /\ op = NoOp
    /\ op' = call
    /\ result' = out.result
    /\ ret' = out.ret
    /\ calls' = out.calls
    /\ pre' = fs
    /\ fs' = out.fs
    /\ UNCHANGED <<pathbuf, registry, file_item, procs>>

BuildRegistry ==
    \E file \in FileNames, bio \in BuildIo :
        Returned([name |-> "build_registry", file |-> file, version |-> None],
                 Manager_build_registry(pathbuf, fs, file, bio))

UpdateRegistry ==
    \E file \in FileNames, version \in Versions, pio \in ParseIo, bio \in BuildIo :
        Returned([name |-> "update_registry", file |-> file, version |-> Some(version)],
                 Manager_update_registry(pathbuf, fs, file, version, pio, bio))

GetFile ==
    \E file \in FileNames, pio \in ParseIo :
        Returned([name |-> "get_file", file |-> file, version |-> None],
                 Manager_get_file(pathbuf, fs, file, pio))

\* The caller takes the result.  The manager holds only its processor and its
\* path wrapper, so nothing of a finished call is kept but the file system.
Done ==
    /\ op # NoOp
    /\ op' = NoOp
    /\ result' = OkResult
    /\ ret' = None
    /\ calls' = <<>>
    /\ pre' = fs
    /\ UNCHANGED <<pathbuf, fs, registry, file_item, procs>>

Next == BuildRegistry \/ UpdateRegistry \/ GetFile \/ Done

Spec == Init /\ [][Next]_vars

----------------------------------------------------------------------------
(* A scope with no registry file, and a Registry held by a caller *)

\* the directory labels a Registry is constructed with
DirLabels == {"output", "legacy"}

\* the entries a caller passes to Registry::add_file: the fields are public,
\* so any name and any version list
HarnessItems ==
    {[name |-> n, versions |-> vs] : n \in FileNames, vs \in InitVersionLists}

\* the state in which no operation has been called
NotCalled ==
    /\ op = NoOp
    /\ result = OkResult
    /\ ret = None
    /\ calls = <<>>
    /\ pre = fs

\* Either a manager over a scope that has no registry file yet, or a caller
\* that holds Registry::new(label) next to a scope whose directory is missing.
InitFresh ==
    /\ file_item = None
    /\ procs = [i \in Procs |-> IdleProc]
    /\ \/ /\ pathbuf \in ScopePaths
          /\ \E dirs \in {BaseDirs, BaseDirs \cup {pathbuf}} :
                fs = [dirs |-> dirs, files |-> [p \in {} |-> CorruptDoc]]
          /\ registry = None
       \/ /\ pathbuf = <<"tmp", "output">>
          /\ fs = [dirs |-> BaseDirs, files |-> [p \in {} |-> CorruptDoc]]
          /\ \E label \in DirLabels : registry = Some(Registry_new(label))
    /\ NotCalled

\* the effect of a method of Registry called on the held value
RegistryCalled(call, after) ==
    /\ op = NoOp
    /\ registry # None
    /\ op' = call
    /\ registry' = Some(after)
    /\ result' = OkResult
    /\ ret' = None
    /\ calls' = <<>>
    /\ pre' = fs
    /\ UNCHANGED <<pathbuf, fs, file_item, procs>>

AddFile ==
    \E item \in HarnessItems :
        RegistryCalled([name |-> "Registry::add_file", file |-> item.name,
                        item |-> item, before |-> registry[1]],
                       Registry_add_file(registry[1], item))

RemoveFile ==
    \E file \in FileNames :
        RegistryCalled([name |-> "Registry::remove_file", file |-> file,
                        before |-> registry[1]],
                       Registry_remove_file(registry[1], file))

NextFresh == Next \/ AddFile \/ RemoveFile

SpecFresh == InitFresh /\ [][NextFresh]_vars

----------------------------------------------------------------------------
(* Two update_registry invocations that run step by step on one scope *)

\* the most entries of the registry both invocations find on disk
MaxRaceFiles == 1

\* the documents they may find
RaceDocs ==
    {CorruptDoc} \cup
    {Registry_to_json([directory |-> "output", files |-> fl]) :
        fl \in UNION {[1..n -> InitItems] : n \in 0..MaxRaceFiles}}

\* A scope whose registry file exists; neither invocation has started.
InitRace ==
    /\ pathbuf = <<"tmp", "output">>
    /\ \E doc \in RaceDocs :
          fs = [dirs |-> BaseDirs \cup {pathbuf},
                files |-> [p \in {Join(pathbuf, REGISTRY_FILE_NAME)} |-> doc]]
    /\ NotCalled
    /\ NoObjects

\* update_registry(file, version) is entered
Call(i) ==
    /\ procs[i].pc = "idle"
    /\ \E file \in FileNames, version \in Versions :
          procs' = [procs EXCEPT ![i] = [@ EXCEPT !.pc = "exists", !.file = file,
                                                  !.version = Some(version)]]
    /\ UNCHANGED <<pathbuf, fs, op, result, ret, calls, pre, registry, file_item>>

\* the test for the registry file and the validation of the version: with no
\* file the invocation ends as build_registry does, with an invalid version
\* it ends with the validation error
Exists(i) ==
    /\ procs[i].pc = "exists"
    /\ IF ~File_exists(fs, Manager_build_registry_file_path(pathbuf))
       THEN \E bio \in BuildIo :
              LET out == Manager_build_registry(pathbuf, fs, procs[i].file, bio)
              IN  /\ fs' = out.fs
                  /\ calls' = calls \o out.calls
                  /\ procs' = [procs EXCEPT ![i] = [@ EXCEPT !.pc = "done",
                                                          !.result = out.result]]
       ELSE /\ UNCHANGED <<fs, calls>>
            /\ IF ~FileVersion_validate(procs[i].version[1]).ok
               THEN procs' = [procs EXCEPT ![i] =
                        [@ EXCEPT !.pc = "done",
                                  !.result = FileVersion_validate(procs[i].version[1])]]
               ELSE procs' = [procs EXCEPT ![i] = [@ EXCEPT !.pc = "parse"]]
    /\ UNCHANGED <<pathbuf, op, result, ret, pre, registry, file_item>>

\* self.processor.parse(registry_file_path)
Parse(i) ==
    /\ procs[i].pc = "parse"
    /\ \E pio \in ParseIo :
          LET registry_file_path == Manager_build_registry_file_path(pathbuf)
              parsed == ProcessorAdapter_parse(fs, registry_file_path, pio)
          IN  /\ calls' = Append(calls, ParseCall(registry_file_path, pio, parsed))
              /\ procs' = [procs EXCEPT ![i] =
                    IF parsed.result.ok
                    THEN [@ EXCEPT !.pc = "build", !.loaded = parsed.registry,
                                   !.read = Len(calls) + 1]
                    ELSE [@ EXCEPT !.pc = "done", !.result = parsed.result,
                                   !.read = Len(calls) + 1]]
    /\ UNCHANGED <<pathbuf, fs, op, result, ret, pre, registry, file_item>>

\* the loaded registry is modified in memory and written:
\* self.processor.build(registry_file_path, registry)
Build(i) ==
    /\ procs[i].pc = "build"
    /\ \E bio \in BuildIo :
          LET out == ReturnBuild(<<>>, fs, Manager_build_registry_file_path(pathbuf),
                         Manager_update_registry_modified(procs[i].loaded[1],
                             procs[i].file, procs[i].version[1]), bio)
          IN  /\ fs' = out.fs
              /\ calls' = calls \o out.calls
              /\ procs' = [procs EXCEPT ![i] = [@ EXCEPT !.pc = "done",
                                                      !.result = out.result,
                                                      !.wrote = Len(calls) + 1]]
    /\ UNCHANGED <<pathbuf, op, result, ret, pre, registry, file_item>>

NextRace == \E i \in Procs : Call(i) \/ Exists(i) \/ Parse(i) \/ Build(i)

SpecRace == InitRace /\ [][NextRace]_vars

----------------------------------------------------------------------------
(* The persistence processor called on its own *)

\* the most entries of a registry that is handed to build
MaxProcFiles == 2

\* the entries of those registries: any name, and version lists that may be
\* empty, repeat a version or hold a version that is not valid
ProcItems ==
    {[name |-> n, versions |-> vs] :
        n \in FileNames, vs \in InitVersionLists \cup {<< <<>> >>, <<V_bad_version>>}}

\* the registries handed to build
ProcRegistries ==
    {[directory |-> d, files |-> fl] :
        d \in {"", "output"},
        fl \in UNION {[1..n -> ProcItems] : n \in 0..MaxProcFiles}}

\* the members of a registry document and of an entry document that conform
\* to the schema
DirectoryMember == Member("directory", JString("output"))

NameMember == Member("name", JString("readme"))

VersionsMember == Member("versions", JArray(<<JString(V_0_1_0)>>))

FilesMember(entry) == Member("files", JArray(<<entry>>))

EntryDoc == JObject(<<NameMember, VersionsMember>>)

\* documents written by hand or by another program that parse may find:
\* the conforming one, then one per way of not conforming
ProcDocs ==
    { JObject(<<DirectoryMember, FilesMember(EntryDoc)>>),
      JObject(<<FilesMember(EntryDoc), DirectoryMember>>),
      \* a required field is missing
      JObject(<<FilesMember(EntryDoc)>>),
      JObject(<<DirectoryMember>>),
      JObject(<<DirectoryMember, FilesMember(JObject(<<VersionsMember>>))>>),
      JObject(<<DirectoryMember, FilesMember(JObject(<<NameMember>>))>>),
      \* a field beyond the schema
      JObject(<<DirectoryMember, FilesMember(EntryDoc), Member("comment", JString("x"))>>),
      JObject(<<Member("comment", JString("x")), DirectoryMember, FilesMember(EntryDoc)>>),
      JObject(<<DirectoryMember,
                FilesMember(JObject(<<NameMember, VersionsMember,
                                      Member("size", JString("1"))>>))>>),
      \* a missing field and a field beyond the schema
      JObject(<<DirectoryMember, Member("file", JArray(<<EntryDoc>>))>>),
      \* a field twice, a value of another type, the fields as an array
      JObject(<<DirectoryMember, DirectoryMember, FilesMember(EntryDoc)>>),
      JObject(<<DirectoryMember, Member("files", JString("readme"))>>),
      JObject(<<DirectoryMember, FilesMember(JString("readme"))>>),
      JArray(<<JString("output"), JArray(<<EntryDoc>>)>>),
      JArray(<<JString("output")>>),
      JString("output"),
      CorruptDoc }

\* Either a caller that holds a registry and a scope without a registry file,
\* or a scope whose registry file holds one of the documents.
InitProcessor ==
    /\ pathbuf = <<"tmp", "output">>
    /\ \/ /\ registry \in {Some(r) : r \in ProcRegistries}
          /\ fs = [dirs |-> BaseDirs \cup {pathbuf}, files |-> [p \in {} |-> CorruptDoc]]
       \/ /\ registry = None
          /\ \E doc \in ProcDocs :
                fs = [dirs |-> BaseDirs \cup {pathbuf},
                      files |-> [p \in {Join(pathbuf, REGISTRY_FILE_NAME)} |-> doc]]
    /\ NotCalled
    /\ file_item = None
    /\ procs = [i \in Procs |-> IdleProc]

\* build(<scope>/registry.json, registry) with the registry the caller holds;
\* `calls` keeps the last build
ProcessorBuild ==
    /\ registry # None
    /\ \E bio \in BuildIo :
          LET file_path == Join(pathbuf, REGISTRY_FILE_NAME)
              out == ProcessorAdapter_build(fs, file_path, registry[1], bio)
          IN  /\ op' = [name |-> "Processor::build", io |-> bio]
              /\ result' = out.result
              /\ ret' = None
              /\ calls' = <<BuildCall(file_path, registry[1], bio, out.result)>>
              /\ pre' = fs
              /\ fs' = out.fs
    /\ UNCHANGED <<pathbuf, registry, file_item, procs>>

\* parse(<scope>/registry.json)
ProcessorParse ==
    /\ \E pio \in ParseIo :
          LET out == ProcessorAdapter_parse(fs, Join(pathbuf, REGISTRY_FILE_NAME), pio)
          IN  /\ op' = [name |-> "Processor::parse", io |-> pio]
              /\ result' = out.result
              /\ ret' = out.registry
              /\ pre' = fs
    /\ UNCHANGED <<pathbuf, fs, calls, registry, file_item, procs>>

NextProcessor == ProcessorBuild \/ ProcessorParse

SpecProcessor == InitProcessor /\ [][NextProcessor]_vars

----------------------------------------------------------------------------
(* FileVersion::validate called on its own *)

\* the most parts of a version string that is validated
MaxParts == 4

\* What stands between the dots of those strings, each text with what it is:
\* `digits` if it is a non-empty run of digits, and `is` for where its
\* number lies ("zero", "byte" for 1..255, "u32" for 256..4294967295,
\* "beyond" for more, "none" if it is no number).
PartPool ==
    { [text |-> <<>>, digits |-> FALSE, is |-> "none"],
      [text |-> <<"0">>, digits |-> TRUE, is |-> "zero"],
      [text |-> <<"0", "0">>, digits |-> TRUE, is |-> "zero"],
      [text |-> <<"1">>, digits |-> TRUE, is |-> "byte"],
      [text |-> <<"0", "1">>, digits |-> TRUE, is |-> "byte"],
      [text |-> <<"2", "5", "5">>, digits |-> TRUE, is |-> "byte"],
      [text |-> <<"2", "5", "6">>, digits |-> TRUE, is |-> "u32"],
      [text |-> <<"4", "2", "9", "4", "9", "6", "7", "2", "9", "5">>,
       digits |-> TRUE, is |-> "u32"],
      [text |-> <<"4", "2", "9", "4", "9", "6", "7", "2", "9", "6">>,
       digits |-> TRUE, is |-> "beyond"],
      [text |-> <<"a">>, digits |-> FALSE, is |-> "none"],
      [text |-> <<"+", "1">>, digits |-> FALSE, is |-> "none"] }

\* the texts of the parts with a dot between each two
RECURSIVE JoinDots(_)
JoinDots(parts) ==
    IF Len(parts) = 0 THEN <<>>
    ELSE IF Len(parts) = 1 THEN parts[1].text
    ELSE parts[1].text \o <<".">> \o JoinDots(Tail(parts))

\* A caller holds a version string made of some parts; nothing is validated
\* yet.
InitVersion ==
    /\ pathbuf = <<"tmp", "output">>
    /\ fs = [dirs |-> BaseDirs, files |-> [p \in {} |-> CorruptDoc]]
    /\ \E n \in 1..MaxParts : \E parts \in [1..n -> PartPool] :
          op = [name |-> "FileVersion::from", version |-> Some(JoinDots(parts)),
                parts |-> parts]
    /\ result = OkResult
    /\ ret = None
    /\ calls = <<>>
    /\ pre = fs
    /\ NoObjects

\* validate() of the version string
Validate ==
    /\ op.name = "FileVersion::from"
    /\ op' = [op EXCEPT !.name = "FileVersion::validate"]
    /\ result' = FileVersion_validate(op.version[1])
    /\ UNCHANGED <<pathbuf, fs, ret, calls, pre, registry, file_item, procs>>

NextVersion == Validate

SpecVersion == InitVersion /\ [][NextVersion]_vars

----------------------------------------------------------------------------
(* A FileItem held by a caller *)

\* the longest version list an update is still called on to append to
MaxItemVersions == 4

\* No FileItem is constructed yet.
InitFileItem ==
    /\ pathbuf = <<"tmp", "output">>
    /\ fs = [dirs |-> BaseDirs, files |-> [p \in {} |-> CorruptDoc]]
    /\ NotCalled
    /\ NoObjects

\* FileItem::new(name)
New ==
    /\ file_item = None
    /\ \E name \in FileNames :
          /\ file_item' = Some(FileItem_new(name))
          /\ op' = [name |-> "FileItem::new", file |-> name, version |-> None]
    /\ result' = OkResult
    /\ ret' = None
    /\ UNCHANGED <<pathbuf, fs, calls, pre, registry, procs>>

\* update(version) of the held entry, with any version, valid or not; `op`
\* keeps the entry before the call and whether the call before it was the
\* same update
Update ==
    /\ file_item # None
    /\ \E version \in Versions :
          /\ \/ Len(file_item[1].versions) < MaxItemVersions
             \/ Contains(file_item[1].versions, version)
          /\ file_item' = Some(FileItem_update(file_item[1], version))
          /\ op' = [name |-> "FileItem::update", file |-> file_item[1].name,
                    version |-> Some(version), before |-> file_item[1],
                    again |-> (op.name = "FileItem::update"
                                  /\ op.version = Some(version))]
    /\ result' = OkResult
    /\ ret' = None
    /\ UNCHANGED <<pathbuf, fs, calls, pre, registry, procs>>

NextFileItem == New \/ Update

SpecFileItem == InitFileItem /\ [][NextFileItem]_vars

----------------------------------------------------------------------------
(* A FileItem of any content, validated and asked for its last version *)

\* Either no FileItem is constructed yet, or the caller holds one whose
\* public fields were set directly: any name and any version list.
InitItem ==
    /\ pathbuf = <<"tmp", "output">>
    /\ fs = [dirs |-> BaseDirs, files |-> [p \in {} |-> CorruptDoc]]
    /\ NotCalled
    /\ registry = None
    /\ procs = [i \in Procs |-> IdleProc]
    /\ file_item \in {None} \cup {Some(item) : item \in HarnessItems}

\* validate() of the held entry
ValidateItem ==
    /\ file_item # None
    /\ op' = [name |-> "FileItem::validate", file |-> file_item[1].name,
              version |-> None]
    /\ result' = FileItem_validate(file_item[1])
    /\ ret' = None
    /\ UNCHANGED <<pathbuf, fs, calls, pre, registry, file_item, procs>>

\* get_last_version() of the held entry; `op` keeps the version that the
\* call before it appended, if that call was an update that appended
GetLastVersion ==
    /\ file_item # None
    /\ op' = [name |-> "FileItem::get_last_version", file |-> file_item[1].name,
              version |-> None,
              appended |-> IF /\ op.name = "FileItem::update"
                              /\ ~Contains(op.before.versions, op.version[1])
                           THEN op.version
                           ELSE None]
    /\ result' = OkResult
    /\ ret' = FileItem_get_last_version(file_item[1])
    /\ UNCHANGED <<pathbuf, fs, calls, pre, registry, file_item, procs>>

NextItem == New \/ Update \/ ValidateItem \/ GetLastVersion

SpecItem == InitItem /\ [][NextItem]_vars

----------------------------------------------------------------------------
(* A Registry held by a caller: add_file, remove_file, get_file *)

\* The caller holds Registry::new(label).
InitRegistry ==
    /\ pathbuf = <<"tmp", "output">>
    /\ fs = [dirs |-> BaseDirs, files |-> [p \in {} |-> CorruptDoc]]
    /\ NotCalled
    /\ file_item = None
    /\ procs = [i \in Procs |-> IdleProc]
    /\ \E label \in DirLabels : registry = Some(Registry_new(label))

\* get_file(name) of the held registry, also right after an add_file; `op`
\* keeps the registry before the call and the entry that an add_file just
\* before it added
RegistryGetFile ==
    /\ registry # None
    /\ op.name \in {"none", "Registry::add_file"}
    /\ \E file \in FileNames :
          /\ op' = [name |-> "Registry::get_file", file |-> file,
                    before |-> registry[1],
                    added |-> IF op.name = "Registry::add_file"
                              THEN Some(op.item) ELSE None]
          /\ ret' = Registry_get_file(registry[1], file)
    /\ result' = OkResult
    /\ calls' = <<>>
    /\ pre' = fs
    /\ UNCHANGED <<pathbuf, fs, registry, file_item, procs>>

NextRegistry == AddFile \/ RemoveFile \/ RegistryGetFile \/ Done

SpecRegistry == InitRegistry /\ [][NextRegistry]_vars

----------------------------------------------------------------------------
(* The business manager over a scope with no registry file *)

\* the versions a definition is defined with: none given, a valid one, one
\* that is not valid
DefineVersions == {None, Some(V_1_0_0), Some(V_bad_version)}

\* The scope directory exists or not; it holds no registry file and no
\* definition.
InitDefine ==
    /\ pathbuf = <<"tmp", "output">>
    /\ \E dirs \in {BaseDirs, BaseDirs \cup {pathbuf}} :
          fs = [dirs |-> dirs, files |-> [p \in {} |-> CorruptDoc]]
    /\ NotCalled
    /\ NoObjects

Define ==
    \E definition \in FileNames, version \in DefineVersions,
       dio \in DefineIo, pio \in ParseIo, bio \in BuildIo :
        Returned([name |-> "define", file |-> definition, version |-> version],
                 BusinessManager_define(pathbuf, fs, definition, version, dio, pio, bio))

NextDefine == Define \/ Done

SpecDefine == InitDefine /\ [][NextDefine]_vars

----------------------------------------------------------------------------
(* update_registry called twice with the same arguments *)

\* The first of the two calls, on any state of the scope.
UpdateFirst ==
    \E file \in FileNames, version \in ValidVersions, pio \in ParseIo, bio \in BuildIo :
        Returned([name |-> "update_registry", file |-> file,
                  version |-> Some(version), again |-> FALSE],
                 Manager_update_registry(pathbuf, fs, file, version, pio, bio))

\* The same call once more, after the first has returned Ok.
UpdateAgain ==
    /\ op.name = "update_registry"
    /\ ~op.again
    /\ result.ok
    /\ \E pio \in ParseIo, bio \in BuildIo :
          LET out == Manager_update_registry(pathbuf, fs, op.file, op.version[1], pio, bio)
          IN  /\ op' = [op EXCEPT !.again = TRUE]
              /\ result' = out.result
              /\ ret' = out.ret
              /\ calls' = out.calls
              /\ pre' = fs
              /\ fs' = out.fs
    /\ UNCHANGED <<pathbuf, registry, file_item, procs>>

NextTwice == UpdateFirst \/ UpdateAgain \/ Done

SpecTwice == Init /\ [][NextTwice]_vars

----------------------------------------------------------------------------
(* Vocabulary of the properties *)

\* <scope>/registry.json
RegistryFilePath == pathbuf \o <<"registry.json">>

\* the registry that the file system `f` stores for the scope, if it stores one
Stored(f) ==
    IF File_exists(f, RegistryFilePath)
    THEN Registry_from_json(f.files[RegistryFilePath])
    ELSE None

\* the entries of that name, in the order of the files list
EntriesNamed(reg, name) ==
    LET Named(file) == file.name = name
    IN  SelectSeq(reg.files, Named)

CallsOf(method) ==
    LET Is(call) == call.method = method
    IN  SelectSeq(calls, Is)

\* the file system failed none of the processor calls of the operation
NoIoFault == \A i \in 1..Len(calls) : calls[i].io = "ok"

Building == op.name = "build_registry"

Updating == op.name = "update_registry"

UpdatingValid == Updating /\ op.version[1] \in ValidVersions

UpdatingInvalid == Updating /\ op.version[1] \in InvalidVersions

IsValidationError(r) == ~r.ok /\ r.cat = "CoreError" /\ r.kind = "ValidationError"

IsFsError(r, kind) == ~r.ok /\ r.cat = "FsError" /\ r.kind = kind

----------------------------------------------------------------------------
(* C1 *)

\* the version list of the entry `name` after update_registry(name, v) found it
\* with the list L
Appended(L, v) == IF \E i \in 1..Len(L) : L[i] = v THEN L ELSE L \o <<v>>

\* C1: when the registry file holds an entry named file_name with version list
\* L (the first such entry, should the file repeat the name) and no processor
\* call meets an I/O fault, update_registry(file_name, v) with a valid v
\* succeeds, calls build once with the registry it persists, and in that
\* registry exactly one entry is named file_name, with the list L followed by
\* v if v is not in L and exactly L if it is.
C1_UpdateExistingEntry ==
    ( /\ UpdatingValid
      /\ Stored(pre) # None
      /\ EntriesNamed(Stored(pre)[1], op.file) # <<>>
      /\ NoIoFault )
    => /\ result.ok
       /\ Stored(fs) # None
       /\ Len(CallsOf("build")) = 1
       /\ CallsOf("build")[1].registry = Stored(fs)
       /\ EntriesNamed(Stored(fs)[1], op.file) =
             << [name |-> op.file,
                 versions |-> Appended(EntriesNamed(Stored(pre)[1], op.file)[1].versions,
                                       op.version[1])] >>

\* ["0.1.0"] updated with "1.0.0" has become ["0.1.0", "1.0.0"]
C1_Witness ==
    /\ Updating
    /\ op.file = "readme"
    /\ op.version = Some(V_1_0_0)
    /\ Stored(pre) # None
    /\ EntriesNamed(Stored(pre)[1], "readme") =
          << [name |-> "readme", versions |-> <<V_0_1_0>>] >>
    /\ result.ok
    /\ Stored(fs) # None
    /\ EntriesNamed(Stored(fs)[1], "readme") =
          << [name |-> "readme", versions |-> <<V_0_1_0, V_1_0_0>>] >>

----------------------------------------------------------------------------
(* C2 *)

\* C2: whenever the registry file exists, build_registry fails with a
\* filesystem error of kind AlreadyExists, calls no processor method and
\* leaves the file system as it was; and a build_registry that returned Ok
\* leaves the registry file in existence, so that every later build_registry
\* for the scope meets it.
C2_BuildIsFirstTimeOnly ==
    /\ (Building /\ File_exists(pre, RegistryFilePath))
         => /\ IsFsError(result, "AlreadyExists")
            /\ calls = <<>>
            /\ fs = pre
    /\ (Building /\ result.ok) => File_exists(fs, RegistryFilePath)

C2_Witness ==
    /\ Building
    /\ Stored(pre) # None
    /\ Stored(pre)[1].directory = "output"
    /\ IsFsError(result, "AlreadyExists")

----------------------------------------------------------------------------
(* C3 *)

\* C3 as stated: in every state of the scope, update_registry with a version
\* that fails validation returns a validation error and neither creates nor
\* rewrites the registry file.
C3_Original ==
    UpdatingInvalid => (IsValidationError(result) /\ fs = pre)

\* C3, amended: when the registry file exists, update_registry with a version
\* that fails validation returns a validation error and leaves the file
\* system as it was.
C3_InvalidVersionLeavesFile ==
    (UpdatingInvalid /\ File_exists(pre, RegistryFilePath))
        => (IsValidationError(result) /\ fs = pre)

C3_Witness ==
    /\ UpdatingInvalid
    /\ Stored(pre) # None
    /\ Stored(pre)[1].files # <<>>
    /\ IsValidationError(result)
    /\ fs = pre

----------------------------------------------------------------------------
(* C4 *)

\* C4: when the registry file does not exist, update_registry(file_name,
\* version) returns what build_registry(file_name) returns in the same state,
\* makes the same processor calls and leaves the same file system, whatever
\* the version; a registry it stores holds the single entry file_name with
\* the version list ["0.1.0"].
C4_UpdateDelegatesToBuild ==
    (Updating /\ ~File_exists(pre, RegistryFilePath))
        => /\ \E bio \in BuildIo :
                LET built == Manager_build_registry(pathbuf, pre, op.file, bio)
                IN  /\ result = built.result
                    /\ calls = built.calls
                    /\ fs = built.fs
           /\ Stored(fs) # None =>
                Stored(fs)[1].files =
                    << [name |-> op.file, versions |-> <<REGISTRY_VERSION_GENESIS>>] >>

\* an invalid version was passed and the registry was created all the same
C4_Witness ==
    /\ UpdatingInvalid
    /\ ~File_exists(pre, RegistryFilePath)
    /\ result.ok
    /\ Stored(fs) # None
    /\ Stored(fs)[1].files = << [name |-> "readme", versions |-> <<V_0_1_0>>] >>

----------------------------------------------------------------------------
(* C5 *)

\* C5: when the registry file holds a registry with no entry named file_name
\* and no processor call meets an I/O fault, update_registry(file_name, v) with
\* a valid v succeeds and persists a registry whose only entry named file_name
\* has the version list ["0.1.0"]: v is not recorded.
C5_NewEntryIgnoresVersion ==
    ( /\ UpdatingValid
      /\ Stored(pre) # None
      /\ EntriesNamed(Stored(pre)[1], op.file) = <<>>
      /\ NoIoFault )
    => /\ result.ok
       /\ Stored(fs) # None
       /\ EntriesNamed(Stored(fs)[1], op.file) =
             << [name |-> op.file, versions |-> <<REGISTRY_VERSION_GENESIS>>] >>

C5_Witness ==
    /\ Updating
    /\ op.file = "test_file"
    /\ op.version = Some(V_1_0_0)
    /\ Stored(pre) # None
    /\ EntriesNamed(Stored(pre)[1], "test_file") = <<>>
    /\ Stored(pre)[1].files # <<>>
    /\ result.ok
    /\ Stored(fs) # None
    /\ EntriesNamed(Stored(fs)[1], "test_file") =
          << [name |-> "test_file", versions |-> <<V_0_1_0>>] >>

----------------------------------------------------------------------------
(* C6 *)

\* the scope directory exists, holds no registry file and has a name
FreshLabelledScope ==
    /\ pathbuf \in pre.dirs
    /\ ~File_exists(pre, RegistryFilePath)
    /\ Len(pathbuf) > 0

\* C6: when the scope directory exists, the registry file does not, a
\* directory label is derivable and file_name is not empty, build_registry
\* calls the processor's build exactly once, and nothing else, with the path
\* <scope>/registry.json and the registry {directory: the name of the scope
\* directory, files: [{name: file_name, versions: ["0.1.0"]}]}, and returns
\* what that call returned.
C6_BuildCallsProcessorOnce ==
    (Building /\ FreshLabelledScope /\ op.file # "")
        => /\ Len(calls) = 1
           /\ calls[1].method = "build"
           /\ calls[1].path = pathbuf \o <<"registry.json">>
           /\ calls[1].registry =
                 Some([directory |-> pathbuf[Len(pathbuf)],
                       files |-> << [name |-> op.file,
                                     versions |-> <<REGISTRY_VERSION_GENESIS>>] >>])
           /\ result = calls[1].result

C6_Witness ==
    /\ Building
    /\ FreshLabelledScope
    /\ op.file = "readme"
    /\ result.ok
    /\ Stored(fs) =
          Some([directory |-> "output",
                files |-> << [name |-> "readme", versions |-> <<V_0_1_0>>] >>])

----------------------------------------------------------------------------
(* C7 *)

\* C7: when the registry file exists, update_registry with an invalid version
\* returns an error of the CoreError category, not of the FsError category,
\* and has called neither parse nor build, also where the stored document
\* could not have been parsed.
C7_ValidationPrecedesLoad ==
    (UpdatingInvalid /\ File_exists(pre, RegistryFilePath))
        => /\ ~result.ok
           /\ result.cat = "CoreError"
           /\ result.cat # "FsError"
           /\ calls = <<>>

\* the stored document is no registry: a parse would have failed
C7_Witness ==
    /\ UpdatingInvalid
    /\ File_exists(pre, RegistryFilePath)
    /\ Stored(pre) = None
    /\ result.cat = "CoreError"
    /\ calls = <<>>

----------------------------------------------------------------------------
(* C8 *)

\* C8: build_registry fails with a filesystem error of kind NotFound, calls
\* no processor method and leaves the file system as it was, whenever the
\* scope directory does not exist, and whenever it exists, holds no registry
\* file and has no name from which to derive a label (the root).
C8_BuildNotFound ==
    ( /\ Building
      /\ \/ pathbuf \notin pre.dirs
         \/ /\ pathbuf \in pre.dirs
            /\ ~File_exists(pre, RegistryFilePath)
            /\ Len(pathbuf) = 0 )
    => /\ IsFsError(result, "NotFound")
       /\ calls = <<>>
       /\ fs = pre

\* the directory exists and no label can be derived
C8_Witness ==
    /\ Building
    /\ pathbuf \in pre.dirs
    /\ Len(pathbuf) = 0
    /\ op.file = "readme"
    /\ IsFsError(result, "NotFound")

\* the directory does not exist
C8_WitnessMissingDirectory ==
    /\ Building
    /\ pathbuf \notin pre.dirs
    /\ IsFsError(result, "NotFound")

----------------------------------------------------------------------------
(* C9 *)

\* C9: when the scope directory exists, the registry file does not and a
\* label is derivable, build_registry with the empty file name fails with a
\* validation error, of the CoreError category and not of the FsError
\* category, calls no processor method and creates no registry file.
C9_EmptyNameRejected ==
    (Building /\ FreshLabelledScope /\ op.file = "")
        => /\ IsValidationError(result)
           /\ result.cat # "FsError"
           /\ calls = <<>>
           /\ ~File_exists(fs, RegistryFilePath)

C9_Witness ==
    /\ Building
    /\ FreshLabelledScope
    /\ op.file = ""
    /\ result = ValidationError("File name cannot be empty")

----------------------------------------------------------------------------
(* C10 *)

\* C10: a parse that fails inside update_registry is the last processor call
\* of the operation, its error is the operation's result and the file system
\* is left as it was; a build that fails inside build_registry or
\* update_registry is the last processor call and its error is the
\* operation's result; no operation calls parse more than once or build more
\* than once.
C10_ProcessorFailuresSurface ==
    /\ \A i \in 1..Len(calls) :
          (Updating /\ calls[i].method = "parse" /\ ~calls[i].result.ok)
              => /\ i = Len(calls)
                 /\ result = calls[i].result
                 /\ fs = pre
    /\ \A i \in 1..Len(calls) :
          ((Building \/ Updating) /\ calls[i].method = "build" /\ ~calls[i].result.ok)
              => /\ i = Len(calls)
                 /\ result = calls[i].result
    /\ Len(CallsOf("parse")) <= 1
    /\ Len(CallsOf("build")) <= 1

\* a parse failed inside update_registry
C10_Witness ==
    /\ UpdatingValid
    /\ Len(calls) = 1
    /\ calls[1].method = "parse"
    /\ ~calls[1].result.ok
    /\ result = calls[1].result

\* a build failed inside update_registry, after a parse that worked
C10_WitnessBuildFailed ==
    /\ Updating
    /\ Len(calls) = 2
    /\ calls[2].method = "build"
    /\ ~calls[2].result.ok
    /\ result = calls[2].result

----------------------------------------------------------------------------
(* C11 *)

Getting == op.name = "get_file"

\* C11: the manager's get_file(name) never calls the processor's build and
\* leaves the file system as it was, whether it succeeds or fails; when the
\* stored registry can be loaded it succeeds and returns the first entry of
\* that name as it is stored, valid or not, or none if there is no such
\* entry; when it cannot be loaded it fails.
C11_GetFileIsPureRead ==
    Getting
        => /\ fs = pre
           /\ CallsOf("build") = <<>>
           /\ (Stored(pre) # None /\ NoIoFault)
                 => /\ result.ok
                    /\ ret = IF EntriesNamed(Stored(pre)[1], op.file) = <<>>
                             THEN None
                             ELSE Some(EntriesNamed(Stored(pre)[1], op.file)[1])
           /\ (Stored(pre) = None) => ~result.ok
           /\ ~result.ok => ret = None

\* an entry that would not pass FileItem validation is returned as it is
C11_Witness ==
    /\ Getting
    /\ op.file = "readme"
    /\ result.ok
    /\ ret = Some([name |-> "readme", versions |-> <<>>])
    /\ fs = pre

\* the registry cannot be loaded: get_file fails and nothing is written
C11_WitnessFails ==
    /\ Getting
    /\ File_exists(pre, RegistryFilePath)
    /\ Stored(pre) = None
    /\ ~result.ok
    /\ fs = pre

----------------------------------------------------------------------------
(* C12 *)

\* no two entries of the registry have the same name
OneEntryPerName(reg) ==
    \A i, j \in 1..Len(reg.files) :
        reg.files[i].name = reg.files[j].name => i = j

\* C12: a Registry made by Registry::new and changed by add_file and
\* remove_file only has at most one entry per name, and so has the registry
\* that is persisted by build_registry and update_registry calls in a scope
\* that started with no registry file.
C12_OneEntryPerName ==
    /\ registry # None => OneEntryPerName(registry[1])
    /\ Stored(fs) # None => OneEntryPerName(Stored(fs)[1])

\* add_file of a name the registry holds, next to another entry
C12_Witness ==
    /\ op.name = "Registry::add_file"
    /\ EntriesNamed(op.before, op.file) # <<>>
    /\ Len(op.before.files) = 2
    /\ Len(registry[1].files) = 2
    /\ registry[1].files[2] = op.item
    /\ op.before.files[1].name = op.file

\* the persisted registry after an update of a name it holds already
C12_WitnessPersisted ==
    /\ Updating
    /\ result.ok
    /\ Stored(pre) # None
    /\ EntriesNamed(Stored(pre)[1], op.file) # <<>>
    /\ Stored(fs) # None
    /\ Len(Stored(fs)[1].files) = 3
    /\ Stored(fs) # Stored(pre)

----------------------------------------------------------------------------
(* C13 *)

\* C13: in a scope that started with no registry file, every entry of the
\* registry persisted by build_registry and update_registry calls has a
\* non-empty name.
C13_PersistedNamesNonEmpty ==
    Stored(fs) # None
        => \A i \in 1..Len(Stored(fs)[1].files) : Stored(fs)[1].files[i].name # ""

\* how the empty name gets in: update_registry with an empty name and a valid
\* version, on a registry that has no such entry, returns Ok and persists
\* FileItem::new("") without validating it
C13_EmptyNameStored ==
    /\ UpdatingValid
    /\ op.file = ""
    /\ result.ok
    /\ Stored(pre) # None
    /\ EntriesNamed(Stored(pre)[1], "") = <<>>
    /\ Stored(fs) # None
    /\ EntriesNamed(Stored(fs)[1], "") = <<FileItem_new("")>>

----------------------------------------------------------------------------
(* C14 *)

\* invocation i has returned Ok after it wrote the registry
Succeeded(i) == procs[i].pc = "done" /\ procs[i].result.ok /\ procs[i].wrote > 0

\* what update_registry(file, v) is to leave of the registry `reg`: the other
\* entries in their order, then the entry of that name with v appended if it
\* was absent, or a fresh entry
UpdatedRegistry(reg, file, v) ==
    LET Other(f) == f.name # file
    IN  [directory |-> reg.directory,
         files |-> Append(SelectSeq(reg.files, Other),
                     IF EntriesNamed(reg, file) = <<>>
                     THEN [name |-> file, versions |-> <<V_0_1_0>>]
                     ELSE [name |-> file,
                           versions |-> Appended(EntriesNamed(reg, file)[1].versions, v)])]

\* the versions the registry `reg` holds for `file`
VersionsOf(reg, file) ==
    IF EntriesNamed(reg, file) = <<>>
    THEN {}
    ELSE {EntriesNamed(reg, file)[1].versions[k] :
            k \in 1..Len(EntriesNamed(reg, file)[1].versions)}

\* C14: load, modify and write of update_registry are separate steps, so
\* when two invocations on the same existing registry file both return Ok
\* and the one that wrote last had loaded the registry before the other
\* wrote, the stored registry is the last writer's update of what it had
\* loaded: nothing of the other invocation's write is in it.
C14_LastWriterWins ==
    \A i, j \in Procs :
        ( /\ i # j
          /\ Succeeded(i)
          /\ Succeeded(j)
          /\ procs[j].read < procs[i].wrote
          /\ procs[i].wrote < procs[j].wrote
          /\ calls[procs[j].wrote].io = "ok" )
        => /\ Stored(fs) = Some(UpdatedRegistry(procs[j].loaded[1], procs[j].file,
                                                procs[j].version[1]))
           /\ calls[procs[i].wrote].method = "build"
           /\ calls[procs[j].read].method = "parse"

\* the lost update: both invocations have returned Ok, invocation 1 wrote a
\* registry that records its version, and the registry stored in the end
\* does not hold that version
C14_Witness ==
    /\ Succeeded(1)
    /\ Succeeded(2)
    /\ procs[2].read < procs[1].wrote
    /\ procs[1].wrote < procs[2].wrote
    /\ procs[1].file = "readme"
    /\ procs[2].file = "readme"
    /\ procs[1].version[1] \in VersionsOf(calls[procs[1].wrote].registry[1], "readme")
    /\ calls[procs[1].wrote].io = "ok"
    /\ Stored(fs) # None
    /\ procs[1].version[1] \notin VersionsOf(Stored(fs)[1], "readme")
    /\ procs[2].version[1] \in VersionsOf(Stored(fs)[1], "readme")

----------------------------------------------------------------------------
(* C15 *)

\* parse has returned, and the last build before it wrote the registry the
\* caller holds with no fault of the file system in either call
ParsedAfterBuild ==
    /\ op.name = "Processor::parse"
    /\ op.io = "ok"
    /\ calls # <<>>
    /\ calls[1].io = "ok"

\* C15: when build(path, r) is followed by parse(path) and the file system
\* fails neither call, build returns Ok and parse returns Ok with a registry
\* equal to r: the directory label, the entries and their version lists, in
\* the same order.
C15_RoundTrip ==
    ParsedAfterBuild
        => /\ calls[1].result.ok
           /\ result.ok
           /\ ret = registry
           /\ ret[1].directory = registry[1].directory
           /\ Len(ret[1].files) = Len(registry[1].files)
           /\ \A i \in 1..Len(registry[1].files) :
                 /\ ret[1].files[i].name = registry[1].files[i].name
                 /\ ret[1].files[i].versions = registry[1].files[i].versions

\* a registry with an empty label, a repeated name, an empty version list and
\* a version that is not valid comes back as it was
C15_Witness ==
    /\ ParsedAfterBuild
    /\ result.ok
    /\ ret = registry
    /\ registry[1].directory = ""
    /\ Len(registry[1].files) = 2
    /\ registry[1].files[1].name = "readme"
    /\ registry[1].files[2].name = "readme"
    /\ registry[1].files[1].versions = <<>>
    /\ ~FileVersion_validate(registry[1].files[2].versions[1]).ok

----------------------------------------------------------------------------
(* C16 *)

\* the keys of the members of an object
Keys(doc) == {doc.v[i].key : i \in 1..Len(doc.v)}

\* the entry documents of a registry document: the elements of the value of
\* its "files" member that are objects
EntryDocs(doc) ==
    IF MemberValues(doc.v, "files") # <<>> /\ MemberValues(doc.v, "files")[1].j = "array"
    THEN {e \in {MemberValues(doc.v, "files")[1].v[i] :
                    i \in 1..Len(MemberValues(doc.v, "files")[1].v)} : e.j = "object"}
    ELSE {}

\* a required field is missing from the registry object or from an entry
MissingField(doc) ==
    /\ doc.j = "object"
    /\ \/ ~({"directory", "files"} \subseteq Keys(doc))
       \/ \E e \in EntryDocs(doc) : ~({"name", "versions"} \subseteq Keys(e))

\* the registry object or an entry carries a field beyond the schema
ExtraField(doc) ==
    /\ doc.j = "object"
    /\ \/ ~(Keys(doc) \subseteq {"directory", "files"})
       \/ \E e \in EntryDocs(doc) : ~(Keys(e) \subseteq {"name", "versions"})

\* parse has returned, it could open the file, and the file held `doc`
ParsedStored ==
    /\ op.name = "Processor::parse"
    /\ op.io = "ok"
    /\ File_exists(pre, RegistryFilePath)

\* C16: parse fails with a filesystem error when the stored document misses
\* a required field (directory, files, name or versions) and also when it
\* carries a field beyond those.
C16_MissingOrExtraFieldRejected ==
    ( /\ ParsedStored
      /\ MissingField(pre.files[RegistryFilePath]) \/ ExtraField(pre.files[RegistryFilePath]) )
        => ~result.ok /\ result.cat = "FsError"

\* a document with a field beyond the schema and none missing is parsed: the
\* extra field is skipped and the registry is returned
C16_ExtraFieldAccepted ==
    /\ ParsedStored
    /\ ExtraField(pre.files[RegistryFilePath])
    /\ ~MissingField(pre.files[RegistryFilePath])
    /\ result.ok
    /\ ret = Some([directory |-> "output",
                   files |-> << [name |-> "readme", versions |-> <<V_0_1_0>>] >>])

\* what holds of a missing field: the document is rejected with a filesystem
\* error and no registry is returned
C16_MissingFieldRejected ==
    (ParsedStored /\ MissingField(pre.files[RegistryFilePath]))
        => ~result.ok /\ result.cat = "FsError" /\ ret = None

----------------------------------------------------------------------------
(* C17 *)

Validated == op.name = "FileVersion::validate"

\* three parts, each a non-empty run of digits with a number in 0..255, and
\* not all of them zero
WellFormedVersion(parts) ==
    /\ Len(parts) = 3
    /\ \A i \in 1..3 : parts[i].digits /\ parts[i].is \in {"zero", "byte"}
    /\ \E i \in 1..3 : parts[i].is # "zero"

\* C17: validate() of a version string returns Ok exactly when the string is
\* three dot-separated, non-empty, all-digit parts that each are a number in
\* 0..255 and are not all zero; for every other string (empty, a character
\* that is no digit and no dot, an empty part, more or fewer than three
\* parts, a part beyond an unsigned integer, 0.0.0, a part above 255) it
\* returns a ValidationError.
C17_ValidateExactly ==
    Validated
        => /\ result.ok <=> WellFormedVersion(op.parts)
           /\ ~WellFormedVersion(op.parts) => IsValidationError(result)

\* 0.255.01 is valid: zero parts, the upper limit and a leading zero
C17_Witness ==
    /\ Validated
    /\ op.version = Some(<<"0", ".", "2", "5", "5", ".", "0", "1">>)
    /\ result.ok

\* 0.0.256 is not
C17_WitnessAboveLimit ==
    /\ Validated
    /\ op.version = Some(<<"0", ".", "0", ".", "2", "5", "6">>)
    /\ IsValidationError(result)
    /\ result.msg = "Each part of the file version must be between 0 and 255"

\* the empty string is not
C17_WitnessEmpty ==
    /\ Validated
    /\ op.version = Some(<<>>)
    /\ IsValidationError(result)

----------------------------------------------------------------------------
(* C18 *)

ItemUpdated == op.name = "FileItem::update"

\* no version occurs twice in the list
NoDuplicates(versions) ==
    \A i, j \in 1..Len(versions) : versions[i] = versions[j] => i = j

\* C18: the version list of an entry made by FileItem::new and changed by
\* update calls only, with valid and invalid versions, holds no version
\* twice; update(v) leaves the name and every version at its position, and
\* it appends v as the last element exactly when v was not in the list.
C18_UpdateAppendsIfAbsent ==
    /\ file_item # None => NoDuplicates(file_item[1].versions)
    /\ ItemUpdated
          => /\ file_item[1].name = op.before.name
             /\ \A k \in 1..Len(op.before.versions) :
                   file_item[1].versions[k] = op.before.versions[k]
             /\ IF \E k \in 1..Len(op.before.versions) :
                       op.before.versions[k] = op.version[1]
                THEN file_item[1].versions = op.before.versions
                ELSE file_item[1].versions = op.before.versions \o <<op.version[1]>>

\* a version that is not valid is appended after two others
C18_Witness ==
    /\ ItemUpdated
    /\ ~FileVersion_validate(op.version[1]).ok
    /\ Len(op.before.versions) = 2
    /\ file_item[1].versions = op.before.versions \o <<op.version[1]>>

\* a version in the middle of the list is not appended again
C18_WitnessPresent ==
    /\ ItemUpdated
    /\ Len(op.before.versions) = 3
    /\ op.before.versions[2] = op.version[1]
    /\ file_item[1] = op.before

----------------------------------------------------------------------------
(* C19 *)

\* C19: when update(v) is called twice in a row, the entry after the second
\* call is the entry after the first call.
C19_UpdateIdempotent ==
    (ItemUpdated /\ op.again) => file_item[1] = op.before

\* the second of two update calls with a version the first call appended
C19_Witness ==
    /\ ItemUpdated
    /\ op.again
    /\ op.version = Some(V_1_0_0)
    /\ file_item[1].versions = <<V_0_1_0, V_1_0_0>>
    /\ file_item[1] = op.before

\* the second of two update calls with a version that was in the list before
C19_WitnessPresent ==
    /\ ItemUpdated
    /\ op.again
    /\ op.version = Some(V_0_1_0)
    /\ file_item[1].versions = <<V_0_1_0>>

----------------------------------------------------------------------------
(* C20 *)

\* C20: for every name, the empty one too, FileItem::new(name) is an entry
\* of that name whose version list is the one element "0.1.0", and "0.1.0"
\* passes the validation of FileVersion.
C20_NewHasGenesisOnly ==
    op.name = "FileItem::new"
        => /\ file_item[1].name = op.file
           /\ file_item[1].versions = << <<"0", ".", "1", ".", "0">> >>
           /\ FileVersion_validate(file_item[1].versions[1]).ok

\* the entry with the empty name
C20_Witness ==
    /\ op.name = "FileItem::new"
    /\ op.file = ""
    /\ file_item = Some([name |-> "", versions |-> << <<"0", ".", "1", ".", "0">> >>])

----------------------------------------------------------------------------
(* C21 *)

ItemValidated == op.name = "FileItem::validate"

\* the versions of the entry that are among the valid ones
AllVersionsValid(item) ==
    \A k \in 1..Len(item.versions) : item.versions[k] \in ValidVersions

\* C21: validate() of an entry returns Ok exactly when its name is not
\* empty, its version list is not empty and every version of the list is a
\* valid version; in every other case it returns a ValidationError.  So an
\* entry made by FileItem::new and an update with an invalid version is
\* rejected.
C21_ValidateItemExactly ==
    ItemValidated
        => /\ result.ok <=> ( /\ file_item[1].name # ""
                              /\ file_item[1].versions # <<>>
                              /\ AllVersionsValid(file_item[1]) )
           /\ ~result.ok => IsValidationError(result)

\* FileItem::new("readme"), then update with an invalid version and with the
\* valid 1.0.0: the entry is rejected for the version in the middle
C21_Witness ==
    /\ ItemValidated
    /\ file_item[1].name = "readme"
    /\ Len(file_item[1].versions) = 3
    /\ file_item[1].versions[1] = V_0_1_0
    /\ file_item[1].versions[2] \in InvalidVersions
    /\ file_item[1].versions[3] = V_1_0_0
    /\ IsValidationError(result)

\* an entry with a name and valid versions only passes
C21_WitnessValid ==
    /\ ItemValidated
    /\ file_item = Some([name |-> "test_file", versions |-> <<V_0_1_0, V_1_0_0>>])
    /\ result.ok

\* an entry with an empty version list is rejected
C21_WitnessNoVersions ==
    /\ ItemValidated
    /\ file_item = Some([name |-> "readme", versions |-> <<>>])
    /\ IsValidationError(result)
    /\ result.msg = "File must have at least one version"

----------------------------------------------------------------------------
(* C24 *)

AskedLastVersion == op.name = "FileItem::get_last_version"

\* C24: get_last_version() returns the last element of the version list,
\* and none when the list is empty; right after an update(v) that appended
\* v, it returns v.
C24_LastVersionIsLastElement ==
    AskedLastVersion
        => /\ ret = IF file_item[1].versions = <<>>
                    THEN None
                    ELSE Some(file_item[1].versions[Len(file_item[1].versions)])
           /\ op.appended # None => ret = op.appended

\* after FileItem::new and two appending updates the last one is returned
C24_Witness ==
    /\ AskedLastVersion
    /\ op.appended # None
    /\ Len(file_item[1].versions) = 3
    /\ file_item[1].versions[1] = V_0_1_0
    /\ ret = op.appended
    /\ ret # Some(file_item[1].versions[1])
    /\ ret # Some(file_item[1].versions[2])

\* none for an entry with an empty version list
C24_WitnessEmpty ==
    /\ AskedLastVersion
    /\ file_item[1].versions = <<>>
    /\ ret = None

----------------------------------------------------------------------------
(* C22 *)

\* the files list without the entries of that name
WithoutName(files, name) ==
    LET Other(f) == f.name # name
    IN  SelectSeq(files, Other)

\* C22: add_file(entry) on a registry made by Registry::new, add_file and
\* remove_file replaces wholesale.  If the registry holds an entry of that
\* name, that entry is removed and the given entry is the entry of that
\* name, with exactly the version list passed in, and the number of entries
\* is unchanged; if it holds none, the entry is inserted and the number
\* grows by one.  In both cases the other entries stay and the given entry
\* is the last of the list.  A get_file of that name right after returns the
\* entry just added; get_file returns none for a name that is not present,
\* and it does not change the registry.
C22_AddFileReplaces ==
    /\ op.name = "Registry::add_file"
          => /\ registry[1].directory = op.before.directory
             /\ registry[1].files = Append(WithoutName(op.before.files, op.file), op.item)
             /\ EntriesNamed(registry[1], op.file) = <<op.item>>
             /\ Len(registry[1].files) =
                   IF EntriesNamed(op.before, op.file) # <<>>
                   THEN Len(op.before.files)
                   ELSE Len(op.before.files) + 1
    /\ op.name = "Registry::get_file"
          => /\ registry[1] = op.before
             /\ (op.added # None /\ op.added[1].name = op.file) => ret = op.added
             /\ EntriesNamed(registry[1], op.file) = <<>> => ret = None
             /\ EntriesNamed(registry[1], op.file) # <<>>
                   => ret = Some(EntriesNamed(registry[1], op.file)[1])

\* an entry with two versions is replaced by one of the same name with an
\* empty version list, next to another entry
C22_Witness ==
    /\ op.name = "Registry::add_file"
    /\ Len(op.before.files) = 2
    /\ op.before.files[1].name = op.file
    /\ Len(op.before.files[1].versions) = 2
    /\ op.item.versions = <<>>
    /\ Len(registry[1].files) = 2
    /\ registry[1].files[2] = op.item

\* get_file right after add_file returns the entry added
C22_WitnessGetAdded ==
    /\ op.name = "Registry::get_file"
    /\ op.added # None
    /\ op.added[1].name = op.file
    /\ ret = op.added
    /\ Len(registry[1].files) = 3

\* get_file of a name that is not present
C22_WitnessAbsent ==
    /\ op.name = "Registry::get_file"
    /\ Len(registry[1].files) = 2
    /\ ret = None

----------------------------------------------------------------------------
(* C23 *)

\* C23: remove_file(name) returns no error and leaves the directory label;
\* if the registry holds no entry of that name it leaves the registry as it
\* was, and if it holds one it deletes that entry and leaves every other
\* entry, in the same order.
C23_RemoveFileFrame ==
    op.name = "Registry::remove_file"
        => /\ result.ok
           /\ registry[1].directory = op.before.directory
           /\ EntriesNamed(registry[1], op.file) = <<>>
           /\ EntriesNamed(op.before, op.file) = <<>> => registry[1] = op.before
           /\ \A k \in 1..Len(op.before.files) :
                 op.before.files[k].name = op.file
                    => registry[1].files =
                          SubSeq(op.before.files, 1, k - 1)
                             \o SubSeq(op.before.files, k + 1, Len(op.before.files))

\* the entry in the middle of three is deleted
C23_Witness ==
    /\ op.name = "Registry::remove_file"
    /\ Len(op.before.files) = 3
    /\ op.before.files[2].name = op.file
    /\ registry[1].files = <<op.before.files[1], op.before.files[3]>>

\* a name that is not present: nothing changes
C23_WitnessAbsent ==
    /\ op.name = "Registry::remove_file"
    /\ Len(op.before.files) = 2
    /\ EntriesNamed(op.before, op.file) = <<>>
    /\ registry[1] = op.before
----------------------------------------------------------------------------
(* C25: define validates, then defines, then updates the registry *)

Defining == op.name = "define"

\* the registry file and its content are the ones before the call
RegistryUntouched ==
    /\ File_exists(fs, RegistryFilePath) <=> File_exists(pre, RegistryFilePath)
    /\ File_exists(pre, RegistryFilePath)
          => fs.files[RegistryFilePath] = pre.files[RegistryFilePath]

\* C25: define(definition, version) runs its three steps in order, each
\* only if the one before succeeded: an empty definition fails with the
\* invalid-definition error and neither the processor nor update_registry
\* is called; otherwise the first call is the processor's define, and if it
\* fails its error is returned and update_registry is not called; in both
\* cases the registry is untouched.  update_registry is called only second,
\* after a define that succeeded.
C25_DefineOrder ==
    Defining =>
        /\ op.file = ""
              => /\ result.cat = "InvalidDefinition" /\ ~result.ok
                 /\ calls = <<>>
                 /\ fs = pre
        /\ op.file # ""
              => /\ Len(calls) >= 1 /\ calls[1].method = "define"
                 /\ ~calls[1].result.ok
                       => /\ result = calls[1].result
                          /\ Len(calls) = 1
                          /\ RegistryUntouched
                 /\ calls[1].result.ok
                       => /\ Len(calls) >= 2
                          /\ calls[2].method = "update_registry"
        /\ \A k \in 1..Len(calls) :
              /\ calls[k].method = "define" => k = 1
              /\ calls[k].method = "update_registry"
                    => k = 2 /\ calls[1].result.ok

\* reached: a define whose processor failed on a scope that holds a
\* registry, and one that was refused for its empty definition there
C25_Witness ==
    /\ Defining
    /\ File_exists(pre, RegistryFilePath)
    /\ op.file # ""
    /\ Len(calls) = 1
    /\ ~calls[1].result.ok

\* reached: a define refused for its empty definition on such a scope
C25_WitnessEmpty ==
    /\ Defining
    /\ File_exists(pre, RegistryFilePath)
    /\ op.file = ""
    /\ ~result.ok
----------------------------------------------------------------------------
(* C26 *)

\* the version list of a persisted entry is well formed: it is not empty,
\* its first version is the genesis version, no version is in it twice and
\* every version of it is valid
WellFormedHistory(versions) ==
    /\ versions # <<>>
    /\ versions[1] = FileVersion_new
    /\ NoDuplicates(versions)
    /\ \A k \in 1..Len(versions) : FileVersion_validate(versions[k]).ok

\* C26: over a scope that started without a registry file, after any
\* sequence of build_registry and update_registry calls, with valid and
\* invalid versions and with I/O faults, every entry of the persisted
\* registry has a well-formed version list.
C26_PersistedHistoriesWellFormed ==
    Stored(fs) # None
        => \A k \in 1..Len(Stored(fs)[1].files) :
              WellFormedHistory(Stored(fs)[1].files[k].versions)

\* reached: an update_registry with a valid version that is not the genesis
\* version has extended a persisted entry to two versions
C26_Witness ==
    /\ UpdatingValid
    /\ result.ok
    /\ Stored(fs) # None
    /\ \E k \in 1..Len(Stored(fs)[1].files) :
          /\ Stored(fs)[1].files[k].name = op.file
          /\ Len(Stored(fs)[1].files[k].versions) = 2
          /\ Stored(fs)[1].files[k].versions[2] = op.version[1]
----------------------------------------------------------------------------
(* C27 *)

IsPrefix(s, t) == Len(s) <= Len(t) /\ SubSeq(t, 1, Len(s)) = s

\* every entry of the registry `before` has an entry of its name in `after`
\* whose version list starts with the list it had, and `after` has no fewer
\* entries
Extends(before, after) ==
    /\ Len(after.files) >= Len(before.files)
    /\ \A k \in 1..Len(before.files) :
          \E j \in 1..Len(after.files) :
              /\ after.files[j].name = before.files[k].name
              /\ IsPrefix(before.files[k].versions, after.files[j].versions)

C27_WitnessWriteFault ==
    /\ Updating
    /\ ~NoIoFault
    /\ Stored(pre) # None
    /\ Stored(fs) = None
    /\ File_exists(fs, RegistryFilePath)
----------------------------------------------------------------------------
(* C28 *)

\* the entries of the registry that are not named `name`, in their order
OtherEntries(reg, name) ==
    LET Other(file) == file.name # name
    IN  SelectSeq(reg.files, Other)

\* C28: an update_registry(file_name, v) that returns Ok on a scope whose
\* registry file holds a registry, and none of whose processor calls met an
\* I/O fault, changes only the entry named file_name: the persisted registry
\* keeps its directory label and every entry of another name, with its
\* version list and in the same order, and the one entry named file_name
\* comes after them as the last.
C28_UpdateFrame ==
    Updating /\ result.ok /\ NoIoFault /\ Stored(pre) # None
        => /\ Stored(fs) # None
           /\ Stored(fs)[1].directory = Stored(pre)[1].directory
           /\ OtherEntries(Stored(fs)[1], op.file) = OtherEntries(Stored(pre)[1], op.file)
           /\ Len(EntriesNamed(Stored(fs)[1], op.file)) = 1
           /\ Stored(fs)[1].files
                 = OtherEntries(Stored(pre)[1], op.file)
                      \o EntriesNamed(Stored(fs)[1], op.file)

\* reached: an update_registry that changed the first of two persisted
\* entries and moved it behind the other
C28_Witness ==
    /\ Updating
    /\ result.ok
    /\ NoIoFault
    /\ Stored(pre) # None
    /\ Len(Stored(pre)[1].files) = 2
    /\ Stored(pre)[1].files[1].name = op.file
    /\ Stored(pre)[1].files[2].name # op.file
    /\ Stored(fs) # None
    /\ Stored(fs)[1].files[1] = Stored(pre)[1].files[2]
    /\ Stored(fs)[1].files[2].versions # Stored(pre)[1].files[1].versions
----------------------------------------------------------------------------
(* C29 *)

UpdatedAgain == Updating /\ op.again

\* C29: update_registry is idempotent: for every state of the scope, file
\* name and valid version, when update_registry(file_name, v) has returned
\* Ok and the same call returns Ok once more, the persisted registry after
\* the second call is the one the first call left.
C29_UpdateRegistryIdempotent ==
    UpdatedAgain /\ result.ok /\ NoIoFault
        => Stored(fs) = Stored(pre)

\* reached: the first call made the entry with the genesis version only and
\* the second call appended the version to it
C29_SecondCallAppends ==
    /\ UpdatedAgain
    /\ result.ok
    /\ NoIoFault
    /\ Stored(pre) # None
    /\ Stored(fs) # None
    /\ VersionsOf(Stored(pre)[1], op.file) = {V_0_1_0}
    /\ VersionsOf(Stored(fs)[1], op.file) = {V_0_1_0, op.version[1]}
    /\ op.version[1] # V_0_1_0
----------------------------------------------------------------------------
(* C30 *)

\* the version a define call is about: the one given, or the genesis version
DefinedVersion == IF op.version = None THEN FileVersion_new ELSE op.version[1]

\* the file that processor.define makes for the definition and the version
ArtifactPath(definition, version) ==
    Join(DefinitionDir(pathbuf, definition), ArtifactName(version))

\* the persisted registry has an entry named after the definition whose
\* version list holds the version
Recorded(f, definition, version) ==
    /\ Stored(f) # None
    /\ version \in VersionsOf(Stored(f)[1], definition)

\* C30: over a scope that started without a registry file, after a define
\* call whose processor.define succeeded and none of whose calls met an I/O
\* fault, the file of the definition and the version exists and the pair is
\* recorded in the persisted registry.
C30_DefinedIsRecorded ==
    Defining /\ Len(calls) >= 1 /\ calls[1].result.ok /\ NoIoFault
        => /\ File_exists(fs, ArtifactPath(op.file, DefinedVersion))
           /\ Recorded(fs, op.file, DefinedVersion)

\* reached: define with the valid version 1.0.0 returned Ok, made the file
\* of the version, and the registry has the entry without that version
C30_ArtifactNotRecorded ==
    /\ Defining
    /\ result.ok
    /\ NoIoFault
    /\ op.version = Some(V_1_0_0)
    /\ File_exists(fs, ArtifactPath(op.file, V_1_0_0))
    /\ Stored(fs) # None
    /\ VersionsOf(Stored(fs)[1], op.file) = {V_0_1_0}

\* reached: define with a version that is not valid made its file and then
\* failed in update_registry
C30_InvalidVersionArtifact ==
    /\ Defining
    /\ ~result.ok
    /\ result.cat = "RegistryError"
    /\ NoIoFault
    /\ op.version = Some(V_bad_version)
    /\ File_exists(fs, ArtifactPath(op.file, V_bad_version))
    /\ ~Recorded(fs, op.file, V_bad_version)

====
